---- MODULE Spec2Model ----
(***************************************************************************)
(* Model of foam/additional_constraints.py (spectro_constraint, get_age,   *)
(* enforce_binary_constraints) and of foam/pipeline/pipeline.py.           *)
(*                                                                         *)
(* Floating-point columns are fixed-point integers, one scale per column:  *)
(*   Z in 1e-7, Xc in 1e-5, M and mass keys in 0.1, q and q_err in 0.01,   *)
(*   logD/aov/fov in 0.01, logTeff/logg/logL in 0.01, ages in 0.1,         *)
(*   Teff in 1000 K.                                                       *)
(* A pandas DataFrame is a sequence of row records (the index label is the *)
(* field "name"); a dict is a sequence of <<key, value>> entries in        *)
(* insertion order with distinct keys; Python's None is the empty set and  *)
(* a present value v is {v}.                                               *)
(***************************************************************************)
EXTENDS Integers, Sequences, FiniteSets, TLC

VARIABLES
    pc,                      \* position in the function / script being run
    merit_values_file,       \* contents of the hdf5 file read at line 28
    Obs_dFrame,              \* row 0 of the observations file (line 27)
    nsigma,
    spectro_companion,
    isocloud_grid_summary,
    spectroGrid_file,        \* None, or the contents of the grid file
    spectroGrid_dataFrame,
    df_Theo,
    indices_to_drop,
    outputFile,              \* None, or the table written at line 52
    model,                   \* argument of get_age / enforce_binary_constraints
    result,                  \* value returned (or exception raised) by the call
    config,                  \* pipeline.py: the config module
    match_obsAndTheory,
    obs_i,                   \* pipeline.py: index of the obs_list being checked
    nested_grid_dir,
    cwd,
    stages                   \* pipeline.py: stage modules imported so far

vars == <<pc, merit_values_file, Obs_dFrame, nsigma, spectro_companion,
          isocloud_grid_summary, spectroGrid_file, spectroGrid_dataFrame,
          df_Theo, indices_to_drop, outputFile, model, result, config,
          match_obsAndTheory, obs_i, nested_grid_dir, cwd, stages>>

spectroVars == <<merit_values_file, Obs_dFrame, spectroGrid_file, df_Theo,
                 indices_to_drop, outputFile>>
callVars == <<model, result>>
companionVars == <<nsigma, spectro_companion, isocloud_grid_summary,
                   spectroGrid_dataFrame>>
pipelineVars == <<config, match_obsAndTheory, obs_i, nested_grid_dir, cwd, stages>>

----------------------------------------------------------------------------
(* Python values *)

None == {}
Some(v) == {v}
The(s) == CHOOSE v \in s : TRUE

Ok(v) == [exc |-> "", value |-> v]
Raise(e) == [exc |-> e, value |-> 0]

Abs(x) == IF x < 0 THEN -x ELSE x
Range(s) == {s[i] : i \in DOMAIN s}
MaxOf(S) == CHOOSE x \in S : \A y \in S : y <= x
MinOf(S) == CHOOSE x \in S : \A y \in S : x <= y

(* Fixed-point scales of the float columns (units per 1.0). *)
ZScale == 10^7
XcScale == 10^5
MScale == 10^1
ParamScale == 10^2
AgeScale == 10^1

(* n / d rounded to the nearest integer, ties to even: Python's round(). *)
RoundDiv(n, d) ==
    LET q == n \div d
        r == n % d
    IN  IF 2 * r < d THEN q
        ELSE IF 2 * r > d THEN q + 1
        ELSE IF q % 2 = 0 THEN q ELSE q + 1

(* round(x, 2) of an Xc value: the nearest multiple of 0.01. *)
round2(x) == RoundDiv(x, XcScale \div 100) * (XcScale \div 100)

(* np.isclose(a, b) with numpy's defaults: |a - b| <= atol + rtol * |b|,   *)
(* atol = 1e-8, rtol = 1e-5, on fixed-point values of the given scale.     *)
isclose(a, b, scale) == Abs(a - b) <= (scale + 1000 * Abs(b)) \div 10^8

----------------------------------------------------------------------------
(* get_age *)

(* The boolean mask of lines 73, 75, 76, 79, 80 applied to df. *)
LookupRows(m, df, xc) ==
    SelectSeq(df, LAMBDA r :
        /\ isclose(r.Z, m.Z, ZScale)
        /\ isclose(r.M, m.M, MScale)
        /\ isclose(r.logD, m.logD, ParamScale)
        /\ isclose(r.aov, m.aov, ParamScale)
        /\ isclose(r.fov, m.fov, ParamScale)
        /\ isclose(r.Xc, xc, XcScale))

(* int(<Series>.age): a Series converts only when it holds one element;   *)
(* int() truncates the age to whole units.                                 *)
IntAgeFirstMatch(rows) ==
    IF Len(rows) >= 1 THEN Ok(rows[1].age \div AgeScale) ELSE Raise("TypeError")

IntAge(rows) ==
    IF Len(rows) = 1 THEN Ok(rows[1].age \div AgeScale) ELSE Raise("TypeError")

unique_xc(m, df) == {df[i].Xc : i \in {j \in DOMAIN df : isclose(df[j].Z, m.Z, ZScale)}}

get_age(m, df) ==
    LET uxc == unique_xc(m, df)
        younger == IntAge(LookupRows(m, df, round2(m.Xc + XcScale \div 100)))
        older == IntAge(LookupRows(m, df, round2(m.Xc - XcScale \div 100)))
        own == IntAge(LookupRows(m, df, round2(m.Xc)))
    IN  IF uxc = {} THEN Raise("ValueError")      \* max() of an empty sequence
        ELSE IF Abs(m.Xc - MaxOf(uxc)) < XcScale \div 10^4 THEN
            IF older.exc # "" THEN older
            ELSE Ok([min_age |-> 0, max_age |-> older.value])
        ELSE IF Abs(m.Xc - MinOf(uxc)) < XcScale \div 10^4 THEN
            IF younger.exc # "" THEN younger
            ELSE IF own.exc # "" THEN own
            ELSE Ok([min_age |-> younger.value,
                     max_age |-> own.value + own.value - younger.value])
        ELSE
            IF younger.exc # "" THEN younger
            ELSE IF older.exc # "" THEN older
            ELSE Ok([min_age |-> younger.value, max_age |-> older.value])

----------------------------------------------------------------------------
(* Error-box cuts: df[df.col < bound] and df[df.col > bound]. *)

Below(df, col, bound) == SelectSeq(df, LAMBDA r : r[col] < bound)
Above(df, col, bound) == SelectSeq(df, LAMBDA r : r[col] > bound)

(* np.log10 of a temperature given in units of 1000 K, in units of 0.01    *)
(* dex above log10(1000 K).  Every input of the model keeps                *)
(* Teff - nsigma*Teff_err at or above 1000 K.                              *)
log10 == <<0, 30, 48, 60, 70, 78, 85, 90, 95, 100, 104, 108, 111, 115, 118, 120>>

----------------------------------------------------------------------------
(* enforce_binary_constraints *)

(* Lines 110-115; M in 0.1, q and q_err in 0.01, the result in 0.1. *)
M2_min_swapped(m, sc) ==
    IF sc.primary_pulsates THEN RoundDiv(m.M * (sc.q - sc.q_err), 100)
    ELSE RoundDiv(100 * m.M, sc.q - sc.q_err)

M2_min(m, sc) ==
    IF sc.primary_pulsates THEN RoundDiv(m.M * (sc.q - sc.q_err), 100)
    ELSE RoundDiv(100 * m.M, sc.q + sc.q_err)

M2_max(m, sc) ==
    IF sc.primary_pulsates THEN RoundDiv(m.M * (sc.q + sc.q_err), 100)
    ELSE RoundDiv(100 * m.M, sc.q - sc.q_err)

(* d[k] of a dict: the value stored under a key equal to k, or KeyError. *)
DictGet(d, k) ==
    LET hits == {i \in DOMAIN d : d[i][1] = k}
    IN  IF hits = {} THEN None ELSE Some(d[CHOOSE i \in hits : TRUE][2])

(* Lines 123-137 on one track: the rows left of the track's table. *)
CompanionCut(df, age, sc, n) ==
    LET a == SelectSeq(df, LAMBDA r : r.star_age < age.max_age * AgeScale
                                      /\ r.star_age > age.min_age * AgeScale)
        t == IF sc.Teff # None
             THEN Above(Below(a, "log_Teff", log10[The(sc.Teff) + n * sc.Teff_err]),
                        "log_Teff", log10[The(sc.Teff) - n * sc.Teff_err])
             ELSE a
        g == IF sc.logg # None
             THEN Above(Below(t, "log_g", The(sc.logg) + n * sc.logg_err),
                        "log_g", The(sc.logg) - n * sc.logg_err)
             ELSE t
        l == IF sc.logL # None
             THEN Above(Below(g, "log_L", The(sc.logL) + n * sc.logL_err),
                        "log_L", The(sc.logL) - n * sc.logL_err)
             ELSE g
    IN  IF a = <<>> THEN a ELSE l

(* A loop that gives up at the first track inside the mass range. *)
RECURSIVE ScanTracksFirstCandidate(_, _, _, _, _, _)
ScanTracksFirstCandidate(d, k, m, age, sc, n) ==
    IF k > Len(d) THEN FALSE
    ELSE IF d[k][1] < M2_min(m, sc) \/ d[k][1] > M2_max(m, sc)
         THEN ScanTracksFirstCandidate(d, k + 1, m, age, sc, n)
    ELSE CompanionCut(d[k][2], age, sc, n) # <<>>

(* The loop of lines 119-139 from entry k on: TRUE when it returns None. *)
RECURSIVE ScanTracks(_, _, _, _, _, _)
ScanTracks(d, k, m, age, sc, n) ==
    IF k > Len(d) THEN FALSE
    ELSE IF d[k][1] < M2_min(m, sc) \/ d[k][1] > M2_max(m, sc)
         THEN ScanTracks(d, k + 1, m, age, sc, n)
    ELSE IF CompanionCut(d[k][2], age, sc, n) # <<>> THEN TRUE
    ELSE ScanTracks(d, k + 1, m, age, sc, n)

(* The value returned for one row: Ok(None), Ok(Some(index)) or an exception. *)
enforce_binary_constraints(row, sc, iso, n, grid) ==
    LET age == get_age(row, grid)
        isocloud_dict == DictGet(The(iso), row.Z)
    IN  IF age.exc # "" THEN Raise(age.exc)
        ELSE IF iso = None THEN Raise("TypeError")    \* None[model.Z]
        ELSE IF isocloud_dict = None THEN Raise("KeyError")
        ELSE IF ScanTracks(The(isocloud_dict), 1, row, age.value, sc, n)
             THEN Ok(None)
        ELSE Ok(Some(row.name))

----------------------------------------------------------------------------
(* spectro_constraint *)

(* Lines 30-31, 32-33 and 34-35: the cut on one observable. *)
CutTeff(df, obs, n) ==
    Above(Below(df, "logTeff", log10[obs.Teff + n * obs.Teff_err]),
          "logTeff", log10[obs.Teff - n * obs.Teff_err])

CutLoggInclusive(df, obs, n) ==
    SelectSeq(df, LAMBDA r : /\ r.logg <= obs.logg + n * obs.logg_err
                             /\ r.logg >= obs.logg - n * obs.logg_err)

CutLogg(df, obs, n) ==
    Above(Below(df, "logg", obs.logg + n * obs.logg_err),
          "logg", obs.logg - n * obs.logg_err)

CutLogL(df, obs, n) ==
    Above(Below(df, "logL", obs.logL + n * obs.logL_err),
          "logL", obs.logL - n * obs.logL_err)

(* Lines 30-35. *)
PrimaryCutOf(df, obs, n) == CutLogL(CutLogg(CutTeff(df, obs, n), obs, n), obs, n)

(* Line 38. *)
InputsMissingBoth(iso, file) == iso = None /\ file = None
CompanionInputsMissing(iso, file) == iso = None \/ file = None

(* The column labels of the merit-values table. *)
Columns == << "Z", "M", "logD", "aov", "fov", "Xc", "logTeff", "logg", "logL" >>

(* Line 45, df.apply(func, axis=1): func on each row in turn, the first    *)
(* exception propagating.  On a table without rows pandas calls func on an *)
(* empty row only to probe its result type, swallows the exception it      *)
(* raises (get_age fails on it) and returns an empty copy of the table;    *)
(* iterating that DataFrame at line 46 yields its column labels.           *)
RECURSIVE ApplyRows(_, _, _, _, _, _, _)
ApplyRows(df, k, sc, iso, n, grid, acc) ==
    IF k > Len(df) THEN Ok(acc)
    ELSE LET r == enforce_binary_constraints(df[k], sc, iso, n, grid)
         IN  IF r.exc # "" THEN r
             ELSE ApplyRows(df, k + 1, sc, iso, n, grid, Append(acc, r.value))

Apply(df, sc, iso, n, grid) ==
    IF df = <<>> THEN Ok([i \in DOMAIN Columns |-> Some(Columns[i])])
    ELSE ApplyRows(df, 1, sc, iso, n, grid, <<>>)

(* Lines 46-48: df_Theo.drop(label, inplace=True) removes every row that   *)
(* carries the label and raises KeyError when no row does.                 *)
RECURSIVE DropEach(_, _, _)
DropEach(df, items, k) ==
    IF k > Len(items) THEN Ok(df)
    ELSE IF items[k] = None THEN DropEach(df, items, k + 1)
    ELSE IF \A i \in DOMAIN df : df[i].name # The(items[k])
         THEN [exc |-> "KeyError", value |-> df]
    ELSE DropEach(SelectSeq(df, LAMBDA r : r.name # The(items[k])), items, k + 1)

(* Lines 27-28. *)
ReadInputs ==
    /\ pc = "read"
    /\ df_Theo' = merit_values_file
    /\ pc' = "cut"
    /\ UNCHANGED <<merit_values_file, Obs_dFrame, spectroGrid_file, indices_to_drop,
                   outputFile, callVars, companionVars, pipelineVars>>

(* Lines 30-35. *)
PrimaryCut ==
    /\ pc = "cut"
    /\ df_Theo' = PrimaryCutOf(df_Theo, The(Obs_dFrame), nsigma)
    /\ pc' = "companion"
    /\ UNCHANGED <<merit_values_file, Obs_dFrame, spectroGrid_file, indices_to_drop,
                   outputFile, callVars, companionVars, pipelineVars>>

(* Lines 37-40.  The module binds no name "logger": line 39 raises         *)
(* NameError before sys.exit() is reached; either way the call ends here.  *)
CheckCompanion ==
    /\ pc = "companion"
    /\ \/ /\ spectro_companion = None
          /\ pc' = "write"
          /\ UNCHANGED result
       \/ /\ spectro_companion # None
          /\ CompanionInputsMissing(isocloud_grid_summary, spectroGrid_file)
          /\ pc' = "raised"
          /\ result' = Some(Raise("NameError"))
       \/ /\ spectro_companion # None
          /\ ~CompanionInputsMissing(isocloud_grid_summary, spectroGrid_file)
          /\ pc' = "grid"
          /\ UNCHANGED result
    /\ UNCHANGED <<spectroVars, model, companionVars, pipelineVars>>

(* Line 42. *)
ReadSpectroGrid ==
    /\ pc = "grid"
    /\ IF spectroGrid_file = None
       THEN /\ pc' = "raised" /\ result' = Some(Raise("ValueError"))
            /\ UNCHANGED spectroGrid_dataFrame
       ELSE /\ pc' = "apply" /\ spectroGrid_dataFrame' = The(spectroGrid_file)
            /\ UNCHANGED result
    /\ UNCHANGED <<spectroVars, model, nsigma, spectro_companion,
                   isocloud_grid_summary, pipelineVars>>

(* Lines 44-45. *)
ApplyCompanion ==
    /\ pc = "apply"
    /\ LET r == Apply(df_Theo, The(spectro_companion), isocloud_grid_summary,
                      nsigma, spectroGrid_dataFrame)
       IN  IF r.exc # ""
           THEN /\ pc' = "raised" /\ result' = Some(r) /\ UNCHANGED indices_to_drop
           ELSE /\ pc' = "drop" /\ indices_to_drop' = Some(r.value) /\ UNCHANGED result
    /\ UNCHANGED <<merit_values_file, Obs_dFrame, spectroGrid_file, df_Theo,
                   outputFile, model, companionVars, pipelineVars>>

(* Lines 46-48; rows dropped before a KeyError stay dropped (inplace). *)
DropRows ==
    /\ pc = "drop"
    /\ LET r == DropEach(df_Theo, The(indices_to_drop), 1)
       IN  IF r.exc # ""
           THEN /\ pc' = "raised" /\ result' = Some(Raise(r.exc)) /\ df_Theo' = r.value
           ELSE /\ pc' = "write" /\ df_Theo' = r.value /\ UNCHANGED result
    /\ UNCHANGED <<merit_values_file, Obs_dFrame, spectroGrid_file, indices_to_drop,
                   outputFile, model, companionVars, pipelineVars>>

(* Lines 50-52. *)
WriteOutput ==
    /\ pc = "write"
    /\ outputFile' = Some(df_Theo)
    /\ result' = Some(Ok(None))
    /\ pc' = "done"
    /\ UNCHANGED <<merit_values_file, Obs_dFrame, spectroGrid_file, df_Theo,
                   indices_to_drop, model, companionVars, pipelineVars>>

----------------------------------------------------------------------------
(* pipeline.py.  A string is the sequence of its pieces; a path is the     *)
(* sequence of its directory names.                                        *)

(* sub in s, for strings. *)
Contains(sub, s) ==
    \E i \in 1..(Len(s) - Len(sub) + 1) : SubSeq(s, i, i + Len(sub) - 1) = sub

(* Line 15 sets the flag back to False after each list. *)
FlagKept(flag) == flag
FlagAfterList(flag) == FALSE

(* Lines 30-31 and 38-42, in the order of the lines. *)
PipelineStages ==
    << "pipe0_extract_puls_and_spectro", "pipe1_construct_pattern",
       "pipe2_calculate_likelihood", "pipe3_spectroClip_AICc",
       "pipe4_bestModel_errors", "pipe5_correlationPlots",
       "pipe6_table_bestModels" >>

(* Lines 8-15, one pass of the outer loop; past the last list, on to line 17. *)
CheckObsList ==
    /\ pc = "check_obs"
    /\ IF obs_i = Len(The(config).observable_list)
       THEN /\ pc' = "check_fixed"
            /\ UNCHANGED <<match_obsAndTheory, obs_i>>
       ELSE LET obs_list == The(config).observable_list[obs_i + 1]
                found == match_obsAndTheory
                         \/ \E k \in DOMAIN obs_list :
                                Contains(The(config).periods_or_frequencies_observed,
                                         obs_list[k])
            IN  IF found = FALSE
                THEN /\ pc' = "exit"
                     /\ match_obsAndTheory' = found
                     /\ UNCHANGED obs_i
                ELSE /\ match_obsAndTheory' = FlagAfterList(found)
                     /\ obs_i' = obs_i + 1
                     /\ UNCHANGED pc
    /\ UNCHANGED <<config, nested_grid_dir, cwd, stages, spectroVars, callVars,
                   companionVars>>

(* Lines 19-23 from key k on: the directory name built and whether the     *)
(* script exits.                                                           *)
RECURSIVE FixedLoop(_, _, _, _)
FixedLoop(keys, k, free, dir) ==
    IF k > Len(keys) THEN [dir |-> dir, exit |-> FALSE]
    ELSE IF \E j \in DOMAIN free : free[j] = keys[k]
         THEN [dir |-> Append(dir, keys[k]), exit |-> TRUE]
    ELSE FixedLoop(keys, k + 1, free, Append(dir, keys[k]))

(* Lines 17-23. *)
CheckFixedParameters ==
    /\ pc = "check_fixed"
    /\ IF The(config).fixed_parameters = None
       THEN pc' = "set_directory" /\ UNCHANGED nested_grid_dir
       ELSE LET keys == [i \in DOMAIN The(The(config).fixed_parameters) |->
                             The(The(config).fixed_parameters)[i][1]]
                r == FixedLoop(keys, 1, The(config).free_parameters,
                               <<"Nested_grid_fix">>)
            IN  /\ nested_grid_dir' = r.dir
                /\ pc' = IF r.exit THEN "exit" ELSE "set_directory"
    /\ UNCHANGED <<config, match_obsAndTheory, obs_i, cwd, stages, spectroVars,
                   callVars, companionVars>>

(* Lines 26-27. *)
SetMainDirectory ==
    /\ pc = "set_directory"
    /\ config' = Some([The(config) EXCEPT
                          !.main_directory = cwd,
                          !.observations = cwd \o The(config).observations])
    /\ pc' = "import"
    /\ UNCHANGED <<match_obsAndTheory, obs_i, nested_grid_dir, cwd, stages,
                   spectroVars, callVars, companionVars>>

(* Lines 30-31 and 38-42: each import runs the stage module. *)
ImportStage ==
    /\ pc = "import"
    /\ stages' = Append(stages, PipelineStages[Len(stages) + 1])
    /\ pc' = IF Len(stages') = 2 THEN "chdir"
             ELSE IF Len(stages') = Len(PipelineStages) THEN "done"
             ELSE "import"
    /\ UNCHANGED <<config, match_obsAndTheory, obs_i, nested_grid_dir, cwd,
                   spectroVars, callVars, companionVars>>

(* Lines 34-36. *)
ChangeDirectory ==
    /\ pc = "chdir"
    /\ cwd' = IF The(config).fixed_parameters # None
              THEN Append(cwd, nested_grid_dir) ELSE cwd
    /\ pc' = "import"
    /\ UNCHANGED <<config, match_obsAndTheory, obs_i, nested_grid_dir, stages,
                   spectroVars, callVars, companionVars>>

----------------------------------------------------------------------------
(* Values the variables of a function or script hold while another one runs. *)

IdleSpectro ==
    /\ merit_values_file = <<>> /\ Obs_dFrame = None /\ spectroGrid_file = None
    /\ df_Theo = <<>> /\ indices_to_drop = None /\ outputFile = None
IdleCall == model = None /\ result = None
IdleCompanion ==
    /\ nsigma = 0 /\ spectro_companion = None /\ isocloud_grid_summary = None
    /\ spectroGrid_dataFrame = <<>>
IdlePipeline ==
    /\ config = None /\ match_obsAndTheory = FALSE /\ obs_i = 0
    /\ nested_grid_dir = <<>> /\ cwd = <<>> /\ stages = <<>>

----------------------------------------------------------------------------
(* Grids of theoretical models with ages (the spectroGrid file). *)

Z1 == 14 * 10^4          \* Z = 0.014
Z2 == 20 * 10^4          \* Z = 0.020

GridRow(z, m, xc, a) ==
    [Z |-> z, M |-> m, logD |-> 100, aov |-> 0, fov |-> 1, Xc |-> xc, age |-> a]

(* Track A (M = 5.0) and track B (M = 6.0) at Z1, a second row for one     *)
(* coordinate tuple of track A, and a row at another metallicity.          *)
AgePool ==
    << GridRow(Z1, 50, 70000, 105), GridRow(Z1, 50, 69000, 1107),
       GridRow(Z1, 50, 68000, 2600),
       GridRow(Z1, 60, 70000, 81), GridRow(Z1, 60, 69000, 200),
       GridRow(Z1, 60, 68000, 903), GridRow(Z1, 60, 67000, 2005),
       GridRow(Z1, 50, 69000, 1200),
       GridRow(Z2, 50, 71000, 50) >>

MaxGridRows == 4

(* Every grid of at most MaxGridRows pool rows, rows in pool order. *)
AgeGrids ==
    LET idx == {s \in UNION {[1..n -> DOMAIN AgePool] : n \in 0..MaxGridRows} :
                    \A i \in DOMAIN s : \A j \in DOMAIN s : i < j => s[i] <= s[j]}
    IN  {[i \in DOMAIN s |-> AgePool[s[i]]] : s \in idx}

(* A primary model at the coordinates of grid row r; dz is the difference  *)
(* in the stored Z (round-off of the other file).                          *)
ModelAt(r, dz, label) ==
    [name |-> label, Z |-> r.Z + dz, M |-> r.M, logD |-> r.logD, aov |-> r.aov,
     fov |-> r.fov, Xc |-> r.Xc]

InitAge ==
    /\ pc = "call"
    /\ spectroGrid_dataFrame \in AgeGrids
    /\ \E r \in Range(spectroGrid_dataFrame) : \E dz \in {0, 1} :
           model = Some(ModelAt(r, dz, 0))
    /\ result = None
    /\ nsigma = 0 /\ spectro_companion = None /\ isocloud_grid_summary = None
    /\ IdleSpectro /\ IdlePipeline

CallGetAge ==
    /\ pc = "call"
    /\ result' = Some(get_age(The(model), spectroGrid_dataFrame))
    /\ pc' = "return"
    /\ UNCHANGED <<model, spectroVars, companionVars, pipelineVars>>

NextAge == CallGetAge

SpecAge == InitAge /\ [][NextAge]_vars

----------------------------------------------------------------------------
(* Claims about get_age (SpecAge). *)

(* The rows of df on the model's own evolutionary track. *)
OwnTrack(m, df) ==
    SelectSeq(df, LAMBDA r :
        /\ isclose(r.Z, m.Z, ZScale) /\ isclose(r.M, m.M, MScale)
        /\ isclose(r.logD, m.logD, ParamScale) /\ isclose(r.aov, m.aov, ParamScale)
        /\ isclose(r.fov, m.fov, ParamScale))

TrackXc(m, df) == {r.Xc : r \in Range(OwnTrack(m, df))}
StepsAt(m, df, xc) == {i \in DOMAIN OwnTrack(m, df) : OwnTrack(m, df)[i].Xc = xc}
TrackAge(m, df, xc) == OwnTrack(m, df)[CHOOSE i \in StepsAt(m, df, xc) : TRUE].age \div AgeScale
OneRowPerStep(m, df) == \A xc \in TrackXc(m, df) : Cardinality(StepsAt(m, df, xc)) = 1
XcStep == XcScale \div 100

Youngest(m, df) == m.Xc = MaxOf(TrackXc(m, df))
Oldest(m, df) == m.Xc = MinOf(TrackXc(m, df))

(* The bracket fixed by the model's position on its own track. *)
TrackBracket(m, df) ==
    IF Youngest(m, df)
    THEN [min_age |-> 0, max_age |-> TrackAge(m, df, m.Xc - XcStep)]
    ELSE IF Oldest(m, df)
    THEN [min_age |-> TrackAge(m, df, m.Xc + XcStep),
          max_age |-> 2 * TrackAge(m, df, m.Xc) - TrackAge(m, df, m.Xc + XcStep)]
    ELSE [min_age |-> TrackAge(m, df, m.Xc + XcStep),
          max_age |-> TrackAge(m, df, m.Xc - XcStep)]

(* The neighbours the bracket of the model's own track needs are in the grid. *)
TrackNeighboursPresent(m, df) ==
    /\ OneRowPerStep(m, df)
    /\ m.Xc \in TrackXc(m, df)
    /\ Youngest(m, df) => (m.Xc - XcStep) \in TrackXc(m, df)
    /\ (~Youngest(m, df) /\ Oldest(m, df)) => (m.Xc + XcStep) \in TrackXc(m, df)
    /\ (~Youngest(m, df) /\ ~Oldest(m, df)) =>
           (m.Xc + XcStep) \in TrackXc(m, df) /\ (m.Xc - XcStep) \in TrackXc(m, df)

(* C3: get_age returns the age bracket fixed by the model's position on    *)
(* its own track (youngest step: 0 and the age at Xc-0.01; oldest step:    *)
(* the age at Xc+0.01 and 2*age - min_age; interior: the ages at Xc+0.01   *)
(* and Xc-0.01), for every model of every track, also when the grid holds  *)
(* several tracks at the model's metallicity.                              *)
C3_BracketOfOwnTrack ==
    (pc = "return" /\ TrackNeighboursPresent(The(model), spectroGrid_dataFrame)) =>
        The(result) = Ok(TrackBracket(The(model), spectroGrid_dataFrame))

(* What the code does: the same, provided the model's own track spans the  *)
(* whole Xc range found at its metallicity over all tracks.                *)
C3_BracketWhenTrackSpansMetallicity ==
    (/\ pc = "return"
     /\ TrackNeighboursPresent(The(model), spectroGrid_dataFrame)
     /\ MaxOf(TrackXc(The(model), spectroGrid_dataFrame))
            = MaxOf(unique_xc(The(model), spectroGrid_dataFrame))
     /\ MinOf(TrackXc(The(model), spectroGrid_dataFrame))
            = MinOf(unique_xc(The(model), spectroGrid_dataFrame))) =>
        The(result) = Ok(TrackBracket(The(model), spectroGrid_dataFrame))

----------------------------------------------------------------------------
(* Inputs of enforce_binary_constraints (SpecBinary). *)

CleanGrid == SubSeq(AgePool, 1, 7)

CompanionRow(a, t, g, l) == [star_age |-> a, log_Teff |-> t, log_g |-> g, log_L |-> l]

(* Companion tracks: one with a row inside the age window and every error  *)
(* box; one whose rows are all outside the age window; one whose row in    *)
(* the window is inside the 3-sigma logg box and outside the 2-sigma one;  *)
(* one whose row in the window misses the Teff and logL boxes; one where   *)
(* the age window and the boxes are met, but by different rows.            *)
TrackPool ==
    << << CompanionRow(50, 78, 400, 100), CompanionRow(1500, 78, 400, 100) >>,
       << CompanionRow(50, 78, 400, 100), CompanionRow(2600, 78, 400, 100) >>,
       << CompanionRow(1500, 78, 425, 100) >>,
       << CompanionRow(1500, 100, 400, 130) >>,
       << CompanionRow(1500, 78, 450, 100), CompanionRow(9000, 78, 400, 100) >> >>

MassKeys == {20, 25, 28, 100}
MaxTracks == 2

(* Every dict of at most MaxTracks tracks keyed by distinct masses, in     *)
(* every insertion order.                                                  *)
IsoDicts ==
    {d \in UNION {[1..n -> MassKeys \X Range(TrackPool)] : n \in 0..MaxTracks} :
        \A i \in DOMAIN d : \A j \in DOMAIN d : i # j => d[i][1] # d[j][1]}

IsoGrids ==
    UNION {{ << <<Z1, d>> >>, << <<Z2, <<>> >>, <<Z1, d>> >> } : d \in IsoDicts}
        \cup { << <<Z2, <<>> >> >> }

CompanionSpec(pp, qerr, t, g, l) ==
    [q |-> 50, q_err |-> qerr, primary_pulsates |-> pp,
     Teff |-> t, Teff_err |-> 1, logg |-> g, logg_err |-> 10,
     logL |-> l, logL_err |-> 5]

CompanionSpecs ==
    {CompanionSpec(pp, qerr, obs[1], obs[2], obs[3]) :
        pp \in BOOLEAN, qerr \in {5},
        obs \in { <<None, None, None>>, <<Some(6), None, None>>,
                  <<None, Some(400), None>>, <<Some(6), Some(400), Some(100)>> }}

InitBinary ==
    /\ pc = "call"
    /\ spectroGrid_dataFrame = CleanGrid
    /\ \E i \in {2, 6} : \E dz \in {0, 1} : model = Some(ModelAt(AgePool[i], dz, 7))
    /\ spectro_companion \in {Some(sc) : sc \in CompanionSpecs}
    /\ isocloud_grid_summary \in {Some(g) : g \in IsoGrids}
    /\ nsigma \in {2, 3}
    /\ result = None
    /\ IdleSpectro /\ IdlePipeline

CallEnforce ==
    /\ pc = "call"
    /\ result' = Some(enforce_binary_constraints(The(model), The(spectro_companion),
                          isocloud_grid_summary, nsigma, spectroGrid_dataFrame))
    /\ pc' = "return"
    /\ UNCHANGED <<model, spectroVars, companionVars, pipelineVars>>

NextBinary == CallEnforce

SpecBinary == InitBinary /\ [][NextBinary]_vars

----------------------------------------------------------------------------
(* Claims about enforce_binary_constraints (SpecBinary). *)

(* Row r of a companion track lies strictly inside the age window and      *)
(* inside every error box the companion spec supplies.                     *)
RowInWindowAndBoxes(r, age, sc, n) ==
    /\ age.min_age * AgeScale < r.star_age /\ r.star_age < age.max_age * AgeScale
    /\ sc.Teff # None =>
          /\ log10[The(sc.Teff) - n * sc.Teff_err] < r.log_Teff
          /\ r.log_Teff < log10[The(sc.Teff) + n * sc.Teff_err]
    /\ sc.logg # None =>
          /\ The(sc.logg) - n * sc.logg_err < r.log_g
          /\ r.log_g < The(sc.logg) + n * sc.logg_err
    /\ sc.logL # None =>
          /\ The(sc.logL) - n * sc.logL_err < r.log_L
          /\ r.log_L < The(sc.logL) + n * sc.logL_err

TrackMatches(e, m, age, sc, n) ==
    /\ M2_min(m, sc) <= e[1] /\ e[1] <= M2_max(m, sc)
    /\ \E r \in Range(e[2]) : RowInWindowAndBoxes(r, age, sc, n)

Reordered(d) == {[i \in DOMAIN d |-> d[p[i]]] : p \in Permutations(DOMAIN d)}

(* C1: the model is kept (None is returned) exactly when some track of     *)
(* isocloud_grid_summary[model.Z] has its mass key in [M2_min, M2_max] and *)
(* a single row strictly inside the age window and inside every supplied   *)
(* error box; otherwise the model's index is returned; and the outcome is  *)
(* the same for every iteration order of the tracks.                       *)
C1_KeptIffSomeTrackMatches ==
    (pc = "return" /\ The(result).exc = "") =>
        LET m == The(model)
            sc == The(spectro_companion)
            age == get_age(m, spectroGrid_dataFrame).value
            d == The(DictGet(The(isocloud_grid_summary), m.Z))
            some == \E e \in Range(d) : TrackMatches(e, m, age, sc, nsigma)
        IN  /\ The(result).value = (IF some THEN None ELSE Some(m.name))
            /\ \A o \in Reordered(d) : ScanTracks(o, 1, m, age, sc, nsigma) = some

C1_LaterTrackKeepsModel ==
    /\ pc = "return" /\ The(result) = Ok(None)
    /\ LET m == The(model)
           sc == The(spectro_companion)
           age == get_age(m, spectroGrid_dataFrame).value
           d == The(DictGet(The(isocloud_grid_summary), m.Z))
       IN  /\ Len(d) = 2
           /\ M2_min(m, sc) <= d[1][1] /\ d[1][1] <= M2_max(m, sc)
           /\ ~TrackMatches(d[1], m, age, sc, nsigma)
           /\ TrackMatches(d[2], m, age, sc, nsigma)

(* C9: a model whose Z differs from a metallicity key of the isocloud grid *)
(* by less than the tolerance get_age uses is matched to that key's        *)
(* tracks, as get_age matches it against the spectroscopy grid.            *)
C9_ZMatchedByTolerance ==
    (/\ pc = "return"
     /\ get_age(The(model), spectroGrid_dataFrame).exc = ""
     /\ \E i \in DOMAIN The(isocloud_grid_summary) :
            isclose(The(isocloud_grid_summary)[i][1], The(model).Z, ZScale)) =>
        The(result).exc # "KeyError"

----------------------------------------------------------------------------
(* The companion mass bounds, lines 108-115 (SpecMass). *)

MaxMass == 60

(* Primary masses 0.1 .. MaxMass/10, mass ratios with q > q_err >= 0. *)
InitMass ==
    /\ pc = "call"
    /\ \E mass \in 1..MaxMass : model = Some(ModelAt(GridRow(Z1, mass, 69000, 0), 0, 0))
    /\ \E pp \in BOOLEAN : \E q \in {30, 50, 85, 100} : \E qerr \in {0, 5, 15} :
           spectro_companion =
               Some([CompanionSpec(pp, qerr, None, None, None) EXCEPT !.q = q])
    /\ result = None
    /\ nsigma = 0 /\ isocloud_grid_summary = None /\ spectroGrid_dataFrame = <<>>
    /\ IdleSpectro /\ IdlePipeline

CallMassBounds ==
    /\ pc = "call"
    /\ result' = Some(<< M2_min(The(model), The(spectro_companion)),
                         M2_max(The(model), The(spectro_companion)) >>)
    /\ pc' = "return"
    /\ UNCHANGED <<model, spectroVars, companionVars, pipelineVars>>

NextMass == CallMassBounds

SpecMass == InitMass /\ [][NextMass]_vars

(* b (in 0.1) is num/den (num in 0.001*den units of mass) rounded to one decimal. *)
NearestTenth(b, num, den) == 2 * Abs(b * den - num) <= den

MassBoundsFollowFormula ==
    LET m == The(model).M
        sc == The(spectro_companion)
        lo == The(result)[1]
        hi == The(result)[2]
    IN  /\ sc.primary_pulsates =>
              /\ NearestTenth(lo, m * (sc.q - sc.q_err), 100)
              /\ NearestTenth(hi, m * (sc.q + sc.q_err), 100)
        /\ ~sc.primary_pulsates =>
              /\ NearestTenth(lo, 100 * m, sc.q + sc.q_err)
              /\ NearestTenth(hi, 100 * m, sc.q - sc.q_err)
        /\ lo <= hi

IsExample(pp) ==
    /\ The(model).M = 50 /\ The(spectro_companion).q = 50
    /\ The(spectro_companion).q_err = 5 /\ The(spectro_companion).primary_pulsates = pp

(* C5 as claimed: M2_min = M*(q-q_err), M2_max = M*(q+q_err) (primary      *)
(* pulsates) or M/(q+q_err), M/(q-q_err) (secondary pulsates), rounded to  *)
(* one decimal and ordered; for M = 5.0, q = 0.5, q_err = 0.05 the primary *)
(* case gives [2.25, 2.75] and the secondary case [4.55, 5.56], rounded.   *)
C5_MassBoundsAsClaimed ==
    pc = "return" =>
        /\ MassBoundsFollowFormula
        /\ IsExample(TRUE) => /\ NearestTenth(The(result)[1], 225, 10)
                              /\ NearestTenth(The(result)[2], 275, 10)
        /\ IsExample(FALSE) => /\ NearestTenth(The(result)[1], 455, 10)
                               /\ NearestTenth(The(result)[2], 556, 10)

(* C5 as amended: the same formulas and ordering (for M > 0 and            *)
(* q > q_err >= 0); for M = 5.0, q = 0.5, q_err = 0.05 the primary case    *)
(* gives [2.2, 2.8] and the secondary case gives [9.1, 11.1].              *)
C5_MassBounds ==
    pc = "return" =>
        /\ MassBoundsFollowFormula
        /\ IsExample(TRUE) => The(result) = <<22, 28>>
        /\ IsExample(FALSE) => The(result) = <<91, 111>>

C5_SecondaryExample ==
    pc = "return" /\ IsExample(FALSE) /\ The(result) = <<91, 111>>

----------------------------------------------------------------------------
(* Inputs of spectro_constraint (Spec). *)

Observation ==
    [Teff |-> 6, Teff_err |-> 1, logg |-> 400, logg_err |-> 10,
     logL |-> 100, logL_err |-> 5]

(* A row of the merit-values table: index label, grid coordinates and      *)
(* spectroscopic values.                                                   *)
TheoRow(label, r, t, g, l) ==
    [name |-> label, Z |-> r.Z, M |-> r.M, logD |-> r.logD, aov |-> r.aov,
     fov |-> r.fov, Xc |-> r.Xc, logTeff |-> t, logg |-> g, logL |-> l]

(* Models on track A (M = 5.0, Xc = 0.69) and track B (M = 6.0, Xc = 0.68), *)
(* inside the observed error box or with logg at its 3-sigma edge, under    *)
(* index labels that may repeat in a table.                                 *)
TheoRows ==
    {TheoRow(label, AgePool[i], 78, g, 100) :
        label \in {0, 1}, i \in {2, 6}, g \in {400, 430}}

MaxRows == 2

MeritTables == UNION {[1..n -> TheoRows] : n \in 0..MaxRows}

(* The clean grid; the grid with a second row for the step of track A at    *)
(* Xc = 0.68; the grid without the step of track B at Xc = 0.69.            *)
SpectroGrids ==
    { CleanGrid,
      Append(CleanGrid, GridRow(Z1, 50, 68000, 2700)),
      SelectSeq(CleanGrid, LAMBDA r : ~(r.M = 60 /\ r.Xc = 69000)) }

(* One companion track of 2.5 Msun at Z1 holding a row inside the age       *)
(* window of both models and inside the companion's error box.              *)
IsoGridOneTrack == << <<Z1, << <<25, TrackPool[1]>> >> >> >>

Init ==
    /\ pc = "read"
    /\ merit_values_file \in MeritTables
    /\ Obs_dFrame = Some(Observation)
    /\ nsigma \in {2, 3}
    /\ spectro_companion \in {None, Some(CompanionSpec(TRUE, 5, None, Some(400), None))}
    /\ isocloud_grid_summary \in {None, Some(IsoGridOneTrack)}
    /\ spectroGrid_file \in {None} \cup {Some(g) : g \in SpectroGrids}
    /\ spectroGrid_dataFrame = <<>>
    /\ df_Theo = <<>> /\ indices_to_drop = None /\ outputFile = None
    /\ IdleCall /\ IdlePipeline

Next ==
    \/ ReadInputs
    \/ PrimaryCut
    \/ CheckCompanion
    \/ ReadSpectroGrid
    \/ ApplyCompanion
    \/ DropRows
    \/ WriteOutput

Spec == Init /\ [][Next]_vars

----------------------------------------------------------------------------
(* Claims about spectro_constraint (Spec). *)

(* Row r lies strictly inside the primary star's n-sigma error box. *)
InPrimaryBox(r, obs, n) ==
    /\ log10[obs.Teff - n * obs.Teff_err] < r.logTeff
    /\ r.logTeff < log10[obs.Teff + n * obs.Teff_err]
    /\ obs.logg - n * obs.logg_err < r.logg /\ r.logg < obs.logg + n * obs.logg_err
    /\ obs.logL - n * obs.logL_err < r.logL /\ r.logL < obs.logL + n * obs.logL_err

(* The companion search reports row r compatible. *)
CompanionCompatible(r) ==
    enforce_binary_constraints(r, The(spectro_companion), isocloud_grid_summary,
                               nsigma, The(spectroGrid_file)) = Ok(None)

SurvivesOnItsOwn(r) ==
    /\ InPrimaryBox(r, The(Obs_dFrame), nsigma)
    /\ spectro_companion # None => CompanionCompatible(r)

(* C2: when spectro_constraint completes, the table written holds exactly  *)
(* the input rows that pass the primary error box and, with a companion    *)
(* spec, that the companion search reports compatible, each unchanged and  *)
(* under its own index; a row's survival depends on that row alone.        *)
C2_OutputIsPerRowFilter ==
    pc = "done" =>
        outputFile = Some(SelectSeq(merit_values_file, SurvivesOnItsOwn))

(* What the code does: the same for tables whose index labels are unique. *)
C2_OutputIsPerRowFilterUniqueIndex ==
    (/\ pc = "done"
     /\ \A i \in DOMAIN merit_values_file : \A j \in DOMAIN merit_values_file :
            i # j => merit_values_file[i].name # merit_values_file[j].name) =>
        outputFile = Some(SelectSeq(merit_values_file, SurvivesOnItsOwn))

(* The lookups get_age makes for model m, each with the rows it matches. *)
NeededLookups(m, df) ==
    LET uxc == unique_xc(m, df)
        younger == LookupRows(m, df, round2(m.Xc + XcStep))
        older == LookupRows(m, df, round2(m.Xc - XcStep))
        own == LookupRows(m, df, round2(m.Xc))
    IN  IF uxc = {} THEN {}
        ELSE IF Abs(m.Xc - MaxOf(uxc)) < XcScale \div 10^4 THEN {older}
        ELSE IF Abs(m.Xc - MinOf(uxc)) < XcScale \div 10^4 THEN {younger, own}
        ELSE {younger, older}

BadLookup(m, df) == \E rows \in NeededLookups(m, df) : Len(rows) # 1

(* C6: when a lookup get_age needs matches zero rows or several, get_age   *)
(* returns no bracket but raises, and the run ends without writing the     *)
(* output table.                                                           *)
C6_BadLookupIsFatal ==
    /\ pc \in {"drop", "write", "done", "raised"} /\ spectroGrid_dataFrame # <<>> =>
          \A i \in DOMAIN PrimaryCutOf(merit_values_file, The(Obs_dFrame), nsigma) :
              LET m == PrimaryCutOf(merit_values_file, The(Obs_dFrame), nsigma)[i]
              IN  BadLookup(m, spectroGrid_dataFrame) =>
                      /\ get_age(m, spectroGrid_dataFrame).exc = "TypeError"
                      /\ pc = "raised" /\ outputFile = None
    /\ pc = "raised" => outputFile = None

C6_SeveralMatchesRaise ==
    /\ pc = "raised" /\ The(result) = Raise("TypeError") /\ outputFile = None
    /\ \E i \in DOMAIN df_Theo : \E rows \in NeededLookups(df_Theo[i], spectroGrid_dataFrame) :
           Len(rows) > 1

C6_NoMatchRaises ==
    /\ pc = "raised" /\ The(result) = Raise("TypeError") /\ outputFile = None
    /\ \E i \in DOMAIN df_Theo : \E rows \in NeededLookups(df_Theo[i], spectroGrid_dataFrame) :
           Len(rows) = 0

(* C7: whenever the filtering leaves no row, spectro_constraint completes  *)
(* and writes an empty table: when the primary cut removes every row, with *)
(* or without a companion spec, and when the companion search removes      *)
(* every row left by the primary cut.                                      *)
C7_EmptyResultIsWritten ==
    /\ (/\ PrimaryCutOf(merit_values_file, The(Obs_dFrame), nsigma) = <<>>
        /\ spectro_companion # None =>
               (isocloud_grid_summary # None /\ spectroGrid_file # None)) =>
           /\ pc # "raised"
           /\ pc = "done" => outputFile = Some(<<>>)
    /\ (pc = "done" /\ df_Theo = <<>>) => outputFile = Some(<<>>)

(* What the code does when the companion search removes every row. *)
C7_CompanionSearchEmptiesTable ==
    /\ pc = "done" /\ outputFile = Some(<<>>) /\ spectro_companion # None
    /\ PrimaryCutOf(merit_values_file, The(Obs_dFrame), nsigma) # <<>>

(* C8: with a companion spec but without the isocloud grid or without the  *)
(* grid file, the run ends before any companion search is evaluated and    *)
(* before the output file is written.                                      *)
C8_MissingInputsEndRun ==
    (/\ spectro_companion # None
     /\ isocloud_grid_summary = None \/ spectroGrid_file = None) =>
        /\ pc \in {"read", "cut", "companion", "raised"}
        /\ indices_to_drop = None /\ spectroGrid_dataFrame = <<>>
        /\ outputFile = None

C8_RunEndedOnMissingInput ==
    /\ pc = "raised" /\ spectro_companion # None
    /\ isocloud_grid_summary = None /\ spectroGrid_file # None
    /\ df_Theo # <<>> /\ outputFile = None

----------------------------------------------------------------------------
(* The primary-star cut on its own (SpecCut). *)

(* Rows with logg and logL at the observed mean, at an edge of the 2-sigma *)
(* or 3-sigma box, and beyond it; logTeff inside the box or at its edge.   *)
CutRows ==
    {TheoRow(0, AgePool[2], t, g, l) :
        t \in {78, 90}, g \in {380, 400, 420, 430}, l \in {90, 100, 115}}

InitCut ==
    /\ pc = "cut"
    /\ merit_values_file \in UNION {[1..n -> CutRows] : n \in 0..MaxRows}
    /\ df_Theo = merit_values_file
    /\ Obs_dFrame = Some(Observation)
    /\ nsigma \in {2, 3}
    /\ spectro_companion = None /\ isocloud_grid_summary = None
    /\ spectroGrid_file = None /\ spectroGrid_dataFrame = <<>>
    /\ indices_to_drop = None /\ outputFile = None
    /\ IdleCall /\ IdlePipeline

NextCut == PrimaryCut

SpecCut == InitCut /\ [][NextCut]_vars

CutOn(df, obs, n, X) ==
    CASE X = "Teff" -> CutTeff(df, obs, n)
      [] X = "logg" -> CutLogg(df, obs, n)
      [] X = "logL" -> CutLogL(df, obs, n)

(* C4: a row survives the cut on logg (on logL) exactly when               *)
(* mu - n*sigma < X < mu + n*sigma, both strict: a row at X = mu survives  *)
(* it, a row at mu - n*sigma or mu + n*sigma or beyond is removed; the     *)
(* cuts combine by conjunction, in any order of the observables.           *)
C4_StrictErrorBox ==
    pc = "companion" =>
        LET obs == The(Obs_dFrame)
            n == nsigma
        IN  /\ \A r \in Range(merit_values_file) :
                  /\ CutLogg(<<r>>, obs, n) = <<r>> <=>
                        /\ obs.logg - n * obs.logg_err < r.logg
                        /\ r.logg < obs.logg + n * obs.logg_err
                  /\ CutLogL(<<r>>, obs, n) = <<r>> <=>
                        /\ obs.logL - n * obs.logL_err < r.logL
                        /\ r.logL < obs.logL + n * obs.logL_err
                  /\ r.logg = obs.logg => CutLogg(<<r>>, obs, n) = <<r>>
                  /\ r.logL = obs.logL => CutLogL(<<r>>, obs, n) = <<r>>
                  /\ Abs(r.logg - obs.logg) >= n * obs.logg_err => r \notin Range(df_Theo)
                  /\ Abs(r.logL - obs.logL) >= n * obs.logL_err => r \notin Range(df_Theo)
            /\ df_Theo = SelectSeq(merit_values_file, LAMBDA r : InPrimaryBox(r, obs, n))
            /\ \A o \in Permutations({"Teff", "logg", "logL"}) :
                  CutOn(CutOn(CutOn(merit_values_file, obs, n, o["Teff"]),
                              obs, n, o["logg"]), obs, n, o["logL"]) = df_Theo

C4_EdgeRemovedMeanKept ==
    /\ pc = "companion" /\ Len(merit_values_file) = 2 /\ Len(df_Theo) = 1
    /\ df_Theo[1].logg = The(Obs_dFrame).logg
    /\ \E i \in DOMAIN merit_values_file :
           /\ merit_values_file[i].logg =
                  The(Obs_dFrame).logg + nsigma * The(Obs_dFrame).logg_err
           /\ merit_values_file[i].logTeff = 78 /\ merit_values_file[i].logL = 100

----------------------------------------------------------------------------
(* The configurations the pipeline script runs on (SpecPipeline). *)

(* Lists of observable names: "period", "period_spacing", "frequency". *)
ObsLists ==
    { <<>>, << <<"period">> >>, << <<"frequency">> >>, << <<"period", "_spacing">> >>,
      << <<"frequency">>, <<"period", "_spacing">> >>,
      << <<"period", "_spacing">>, <<"frequency">> >> }
MaxLists == 2

ObservableLists == UNION {[1..n -> ObsLists] : n \in 0..MaxLists}

FixedParameters ==
    { None, Some(<<>>), Some(<< <<"aov", 0>> >>),
      Some(<< <<"aov", 0>>, <<"M", 50>> >>) }
FreeParameters == { << "Z", "M", "logD", "Xc" >>, << "Z", "Xc" >> }

InitPipeline ==
    /\ pc = "check_obs"
    /\ \E ol \in ObservableLists : \E pf \in { <<"period">>, <<"frequency">> } :
       \E fixed \in FixedParameters : \E free \in FreeParameters :
           config = Some([observable_list |-> ol,
                          periods_or_frequencies_observed |-> pf,
                          fixed_parameters |-> fixed,
                          free_parameters |-> free,
                          observations |-> <<"observations.tsv">>,
                          main_directory |-> <<>>])
    /\ match_obsAndTheory = FALSE
    /\ obs_i = 0
    /\ nested_grid_dir = <<>>
    /\ cwd = <<"run">>
    /\ stages = <<>>
    /\ IdleSpectro /\ IdleCall /\ IdleCompanion

NextPipeline ==
    \/ CheckObsList
    \/ CheckFixedParameters
    \/ SetMainDirectory
    \/ ImportStage
    \/ ChangeDirectory

SpecPipeline == InitPipeline /\ [][NextPipeline]_vars

(* The configuration checks of the claim. *)
EveryListNamesTheData(c) ==
    \A i \in DOMAIN c.observable_list :
        \E k \in DOMAIN c.observable_list[i] :
            Contains(c.periods_or_frequencies_observed, c.observable_list[i][k])

NoFixedParameterIsFree(c) ==
    c.fixed_parameters # None =>
        \A i \in DOMAIN The(c.fixed_parameters) :
            The(c.fixed_parameters)[i][1] \notin Range(c.free_parameters)

(* C10: no stage starts unless every list of observable_list names the     *)
(* observed data and no fixed parameter is free (otherwise the script      *)
(* exits before stage 0); the stages run in the order 0..6; with fixed     *)
(* parameters the change into the nested-grid directory happens after      *)
(* stage 1 and before stage 2.                                             *)
C10_StagesAfterChecksInOrder ==
    LET c == The(config)
        ok == EveryListNamesTheData(c) /\ NoFixedParameterIsFree(c)
        nested == <<"run", nested_grid_dir>>
    IN  /\ ~ok => stages = <<>> /\ pc \in {"check_obs", "check_fixed", "exit"}
        /\ pc = "exit" => ~ok
        /\ Len(stages) <= 7
        /\ stages = SubSeq(<< "pipe0_extract_puls_and_spectro", "pipe1_construct_pattern",
                              "pipe2_calculate_likelihood", "pipe3_spectroClip_AICc",
                              "pipe4_bestModel_errors", "pipe5_correlationPlots",
                              "pipe6_table_bestModels" >>, 1, Len(stages))
        /\ pc = "done" => Len(stages) = 7
        /\ c.fixed_parameters # None =>
              /\ Len(stages) > 2 => cwd = nested
              /\ Len(stages) < 2 => cwd = <<"run">>
              /\ cwd \in {<<"run">>, nested}
        /\ c.fixed_parameters = None => cwd = <<"run">>

C10_AllStagesRunInNestedGrid ==
    /\ pc = "done" /\ Len(stages) = 7
    /\ Len(The(config).observable_list) = 2
    /\ The(config).fixed_parameters # None
    /\ cwd = <<"run", <<"Nested_grid_fix", "aov">> >>

C10_SecondListExits ==
    /\ pc = "exit" /\ obs_i = 1 /\ stages = <<>>

====
